---- MODULE Spec2Model ----
(***************************************************************************)
(* Texas Hold'em engine of the CardGame repository (game3.rs): the         *)
(* best-5-of-7 hand evaluator and the fixed-bet betting state machine.     *)
(***************************************************************************)
EXTENDS Integers, Sequences, FiniteSets, TLC

(***************************************************************************)
(* Cards and hand results                                                  *)
(***************************************************************************)

\* card.rs: a card is (rank 1..13, suit 1..4); textures and ids are display only.
Card(r, s) == [rank |-> r, suit |-> s]

\* HandResult { hand_strength, high_cards }
HandResult(strength, keys) == [hand_strength |-> strength, high_cards |-> keys]

\* HandStrength::to_u8
to_u8(strength) ==
    CASE strength = "HighCard"      -> 0
      [] strength = "OnePair"       -> 1
      [] strength = "TwoPair"       -> 2
      [] strength = "ThreeOfAKind"  -> 3
      [] strength = "Straight"      -> 4
      [] strength = "Flush"         -> 5
      [] strength = "FullHouse"     -> 6
      [] strength = "FourOfAKind"   -> 7
      [] strength = "StraightFlush" -> 8

\* Ord::cmp on integers
cmp(a, b) == IF a < b THEN "Less" ELSE IF a > b THEN "Greater" ELSE "Equal"

\* The iteration orders of the rank-count HashMap that matter to a caller taking
\* the first match: the lowest matching rank first, or the highest first.
HashOrders == {"low_first", "high_first"}

(***************************************************************************)
(* Sequence helpers standing for the Vec operations the evaluator uses     *)
(***************************************************************************)

Min2(a, b) == IF a < b THEN a ELSE b

RECURSIVE Repeat(_, _)
Repeat(x, n) == IF n = 0 THEN <<>> ELSE <<x>> \o Repeat(x, n - 1)

Count(seq, x) == Cardinality({i \in DOMAIN seq : seq[i] = x})

\* ranks.sort_by(|a, b| b.cmp(a)) on u8 ranks: descending order, duplicates kept
RECURSIVE SortDescFrom(_, _)
SortDescFrom(seq, r) ==
    IF r < 1 THEN <<>> ELSE Repeat(r, Count(seq, r)) \o SortDescFrom(seq, r - 1)

SortDesc(seq) == SortDescFrom(seq, 13)

\* sort(); dedup(): ascending, duplicates removed
RECURSIVE SortDedupFrom(_, _)
SortDedupFrom(seq, r) ==
    IF r > 13 THEN <<>>
    ELSE (IF Count(seq, r) > 0 THEN <<r>> ELSE <<>>) \o SortDedupFrom(seq, r + 1)

SortDedup(seq) == SortDedupFrom(seq, 1)

\* Faulty variant of FilterNe: nothing is filtered out
FilterNe_kept(seq, x) == seq

\* iter().filter(|r| keep(r)) for "r != x"
FilterNe(seq, x) == SelectSeq(seq, LAMBDA r : r # x)

\* truncate(n)
Truncate(seq, n) == SubSeq(seq, 1, Min2(n, Len(seq)))

Contains(seq, x) == \E i \in DOMAIN seq : seq[i] = x

SetMax(S) == CHOOSE x \in S : \A y \in S : y <= x
SetMin(S) == CHOOSE x \in S : \A y \in S : x <= y

\* iter().find(|r| r != a && r != b).unwrap_or(&1)
FindNotIn(seq, excluded) ==
    LET idx == {i \in DOMAIN seq : seq[i] \notin excluded}
    IN  IF idx = {} THEN 1 ELSE seq[SetMin(idx)]

(***************************************************************************)
(* The evaluator                                                           *)
(***************************************************************************)

\* Faulty variants of is_straight: one also takes 10-J-Q-K-A, the other looks
\* at the span of the ranks without asking for five distinct ones
is_straight_ace_high(ranks) ==
    LET sorted_ranks == SortDedup(ranks)
    IN  IF Len(sorted_ranks) < 5 THEN FALSE
        ELSE \/ \E i \in 1..(Len(sorted_ranks) - 4) :
                    sorted_ranks[i + 4] - sorted_ranks[i] = 4
             \/ \A r \in {1, 10, 11, 12, 13} : Contains(sorted_ranks, r)

is_straight_span(ranks) ==
    LET sorted_ranks == SortDedup(ranks)
    IN  sorted_ranks[Len(sorted_ranks)] - sorted_ranks[1] = 4

\* is_straight
is_straight(ranks) ==
    LET sorted_ranks == SortDedup(ranks)
    IN  IF Len(sorted_ranks) < 5 THEN FALSE
        ELSE \/ \E i \in 1..(Len(sorted_ranks) - 4) :
                    sorted_ranks[i + 4] - sorted_ranks[i] = 4
             \/ /\ Contains(sorted_ranks, 1) /\ Contains(sorted_ranks, 2)
                /\ Contains(sorted_ranks, 3) /\ Contains(sorted_ranks, 4)
                /\ Contains(sorted_ranks, 5)

\* Faulty variant of has_n_of_a_kind: a count of n or more is taken
has_n_of_a_kind_at_least(ranks, n, order) ==
    LET hits == {r \in 1..13 : Count(ranks, r) >= n}
    IN  IF hits = {} THEN 0
        ELSE IF order = "low_first" THEN SetMin(hits) ELSE SetMax(hits)

\* has_n_of_a_kind: the first rank, in the map's iteration order, whose count is
\* n; 0 stands for None.
has_n_of_a_kind(ranks, n, order) ==
    LET hits == {r \in 1..13 : Count(ranks, r) = n}
    IN  IF hits = {} THEN 0
        ELSE IF order = "low_first" THEN SetMin(hits) ELSE SetMax(hits)

\* Faulty variant of get_pairs: the highest pair only
get_pairs_highest(ranks) ==
    Truncate(SortDesc(SortDedup(SelectSeq(ranks, LAMBDA r : Count(ranks, r) >= 2))), 1)

\* get_pairs: the ranks with count >= 2, descending; <<>> stands for None.
get_pairs(ranks) ==
    SortDesc(SortDedup(SelectSeq(ranks, LAMBDA r : Count(ranks, r) >= 2)))

\* evaluate_five_card_hand
evaluate_five_card_hand(cards, order) ==
    LET ranks == SortDesc([i \in DOMAIN cards |-> cards[i].rank])
        suits == [i \in DOMAIN cards |-> cards[i].suit]
        is_flush == \A i \in DOMAIN suits : suits[i] = suits[1]
        straight == is_straight(ranks)
        quad_rank == has_n_of_a_kind(ranks, 4, order)
        three_rank == has_n_of_a_kind(ranks, 3, order)
        two_rank == has_n_of_a_kind(ranks, 2, order)
        pairs == get_pairs(ranks)
    IN  IF is_flush /\ straight THEN
            HandResult("StraightFlush", <<ranks[1]>>)
        ELSE IF quad_rank # 0 THEN
            HandResult("FourOfAKind", <<quad_rank, FindNotIn(ranks, {quad_rank})>>)
        ELSE IF three_rank # 0 /\ two_rank # 0 /\ three_rank # two_rank THEN
            HandResult("FullHouse", <<three_rank, two_rank>>)
        ELSE IF is_flush THEN
            HandResult("Flush", ranks)
        ELSE IF straight THEN
            HandResult("Straight", <<ranks[1]>>)
        ELSE IF three_rank # 0 THEN
            HandResult("ThreeOfAKind",
                       <<three_rank>> \o Truncate(SortDesc(FilterNe(ranks, three_rank)), 2))
        ELSE IF Len(pairs) >= 2 THEN
            HandResult("TwoPair",
                       <<pairs[1], pairs[2], FindNotIn(ranks, {pairs[1], pairs[2]})>>)
        ELSE IF two_rank # 0 THEN
            HandResult("OnePair",
                       <<two_rank>> \o Truncate(SortDesc(FilterNe(ranks, two_rank)), 3))
        ELSE
            HandResult("HighCard", ranks)

\* Faulty variant of compare_hand_results: keys that never differ give Greater
compare_hand_results_ties_greater(hand1, hand2) ==
    LET strength_cmp == cmp(to_u8(hand1.hand_strength), to_u8(hand2.hand_strength))
        k1 == hand1.high_cards
        k2 == hand2.high_cards
        differ == {i \in 1..Min2(Len(k1), Len(k2)) : k1[i] # k2[i]}
    IN  IF strength_cmp # "Equal" THEN strength_cmp
        ELSE IF differ # {} THEN cmp(k1[SetMin(differ)], k2[SetMin(differ)])
        ELSE "Greater"

\* compare_hand_results: the strengths first; then the first position, among those
\* both keys have, where the keys differ; Equal otherwise, whatever the lengths.
compare_hand_results(hand1, hand2) ==
    LET strength_cmp == cmp(to_u8(hand1.hand_strength), to_u8(hand2.hand_strength))
        k1 == hand1.high_cards
        k2 == hand2.high_cards
        differ == {i \in 1..Min2(Len(k1), Len(k2)) : k1[i] # k2[i]}
    IN  IF strength_cmp # "Equal" THEN strength_cmp
        ELSE IF differ # {} THEN cmp(k1[SetMin(differ)], k2[SetMin(differ)])
        ELSE "Equal"

\* compare_hands
compare_hands(hand1, hand2) == compare_hand_results(hand1, hand2)

\* combinations_recursive: the k-combinations of cards[start..], each prefixed by
\* current, in the order the recursion pushes them.
RECURSIVE combinations_recursive(_, _, _, _)
combinations_recursive(cards, k, start, current) ==
    IF Len(current) = k THEN <<current>>
    ELSE LET RECURSIVE Loop(_)
             Loop(i) ==
                 IF i > Len(cards) THEN <<>>
                 ELSE combinations_recursive(cards, k, i + 1, Append(current, cards[i]))
                      \o Loop(i + 1)
         IN  Loop(start)

\* generate_combinations
generate_combinations(cards, k) == combinations_recursive(cards, k, 1, <<>>)

\* Faulty variant of get_sorted_ranks: the ranks in the order of the cards
get_sorted_ranks_unsorted(cards) == [i \in DOMAIN cards |-> cards[i].rank]

\* get_sorted_ranks
get_sorted_ranks(cards) == SortDesc([i \in DOMAIN cards |-> cards[i].rank])

\* The set of strengths of HandStrength
HandStrengths ==
    {"HighCard", "OnePair", "TwoPair", "ThreeOfAKind", "Straight", "Flush",
     "FullHouse", "FourOfAKind", "StraightFlush"}

\* The loop of real_hand_evaluation from combination i on: a result replaces
\* best_result only when it compares Greater.  (The membership test only makes
\* the model checker compute best_result before it goes on.)
RECURSIVE BestOver(_, _, _, _)
BestOver(combinations, i, best_result, order) ==
    IF best_result.hand_strength \notin HandStrengths \/ i > Len(combinations)
    THEN best_result
    ELSE LET result == evaluate_five_card_hand(combinations[i], order)
         IN  BestOver(combinations, i + 1,
                      IF compare_hand_results(result, best_result) = "Greater"
                      THEN result ELSE best_result,
                      order)

\* Faulty variant of real_hand_evaluation: the first combination only
real_hand_evaluation_first(cards, order) ==
    IF Len(cards) < 5 THEN HandResult("HighCard", get_sorted_ranks(cards))
    ELSE evaluate_five_card_hand(generate_combinations(cards, 5)[1], order)

\* real_hand_evaluation
real_hand_evaluation(cards, order) ==
    IF Len(cards) < 5 THEN HandResult("HighCard", get_sorted_ranks(cards))
    ELSE BestOver(generate_combinations(cards, 5), 1, HandResult("HighCard", <<>>), order)

\* evaluate_best_hand
evaluate_best_hand(hand, community, order) == real_hand_evaluation(hand \o community, order)

(***************************************************************************)
(* The betting state machine (TexasHoldemGame)                             *)
(***************************************************************************)

VARIABLES
    game_state,               \* TexasHoldemState
    selected_difficulty,      \* difficulty_selection.selected_difficulty ("None" or a tier)
    player_hand, ai_hand, community_cards, deck,
    player_chips, ai_chips,   \* i32
    pot, current_bet,         \* u32
    game_phase,               \* GamePhase
    game_over, show_ai_cards, waiting_for_ai,
    ai_thinking_timer,        \* TRUE: Some(instant), FALSE: None
    player_acted, ai_acted, both_checked, first_round, has_used_special_action,
    \* history variables, read by no operation
    last_action,              \* the operation that produced this state
    hand_folded,              \* the player has folded in the current hand
    hand_specials,            \* the player's Checks and Folds in the current hand
    hand_bets,                \* bets placed in the current hand, by side and phase
    hand_paid,                \* chips paid out of the pot in the current hand
    hand_ai_checks,           \* the AI's Checks in the current hand
    abandoned_waiting,        \* the last step was a reset taken while waiting_for_ai
    \* a call of the evaluator or of the dealer on its own
    eval_call,                \* the function called; "none" while the game runs
    eval_cards, eval_other,   \* the cards passed (eval_other: the second hand compared);
                              \* for generate_random_card_ids, the cards not yet drawn
    eval_result               \* <<the value returned>>; <<>> before the call;
                              \* for generate_random_card_ids, the cards drawn so far

cardVars == <<player_hand, ai_hand, community_cards, deck>>
chipVars == <<player_chips, ai_chips, pot>>
roundVars == <<player_acted, ai_acted, both_checked, first_round, has_used_special_action>>
histVars == <<last_action, hand_folded, hand_specials, hand_bets, hand_paid,
             hand_ai_checks, abandoned_waiting>>
evalVars == <<eval_call, eval_cards, eval_other, eval_result>>
gameVars ==
    <<game_state, selected_difficulty, cardVars, chipVars, current_bet, game_phase,
      game_over, show_ai_cards, waiting_for_ai, ai_thinking_timer, roundVars, histVars>>

GamePhases == <<"PreFlop", "Flop", "Turn", "River", "Showdown">>
Difficulties == {"Easy", "Medium", "Hard"}
BettingPhases == {"PreFlop", "Flop", "Turn", "River"}
NoBets == [side \in {"player", "ai"} |-> [phase \in BettingPhases |-> 0]]

\* Faulty variant of get_fixed_bet_amount: the Flop amount in the Turn
get_fixed_bet_amount_flat(phase) ==
    CASE phase = "PreFlop"  -> 10
      [] phase = "Flop"     -> 20
      [] phase = "Turn"     -> 20
      [] phase = "River"    -> 40
      [] phase = "Showdown" -> 0

\* Faulty variant of get_fixed_bet_amount: an odd amount in the PreFlop
get_fixed_bet_amount_odd(phase) ==
    CASE phase = "PreFlop"  -> 5
      [] phase = "Flop"     -> 20
      [] phase = "Turn"     -> 30
      [] phase = "River"    -> 40
      [] phase = "Showdown" -> 0

\* get_fixed_bet_amount
get_fixed_bet_amount(phase) ==
    CASE phase = "PreFlop"  -> 10
      [] phase = "Flop"     -> 20
      [] phase = "Turn"     -> 30
      [] phase = "River"    -> 40
      [] phase = "Showdown" -> 0

\* Faulty variant of the match of advance_phase: Flop goes to River
NextPhase_skip(phase) ==
    CASE phase = "PreFlop"  -> "Flop"
      [] phase = "Flop"     -> "River"
      [] phase = "Turn"     -> "River"
      [] phase = "River"    -> "Showdown"
      [] phase = "Showdown" -> "Showdown"

\* The match of advance_phase
NextPhase(phase) ==
    CASE phase = "PreFlop"  -> "Flop"
      [] phase = "Flop"     -> "Turn"
      [] phase = "Turn"     -> "River"
      [] phase = "River"    -> "Showdown"
      [] phase = "Showdown" -> "Showdown"

\* Faulty variant of calculate_ai_action: the Medium AI may agree to a check too
calculate_ai_action_medium_checks(difficulty, p_acted, phase) ==
    LET bet == [kind |-> "Bet", amount |-> get_fixed_bet_amount(phase)]
    IN  IF difficulty \in {"Medium", "Hard"} /\ p_acted
        THEN {[kind |-> "Check", amount |-> 0], bet}
        ELSE {bet}

\* Faulty variant of calculate_ai_action: under Hard the AI may also fold
calculate_ai_action_folds(difficulty, p_acted, phase) ==
    LET bet == [kind |-> "Bet", amount |-> get_fixed_bet_amount(phase)]
    IN  IF difficulty = "Hard" /\ p_acted
        THEN {[kind |-> "Check", amount |-> 0], [kind |-> "Fold", amount |-> 0], bet}
        ELSE {bet}

\* calculate_ai_action: the actions it may return (random_bool(0.5) under Hard)
calculate_ai_action(difficulty, p_acted, phase) ==
    LET bet == [kind |-> "Bet", amount |-> get_fixed_bet_amount(phase)]
    IN  IF difficulty = "Hard" /\ p_acted
        THEN {[kind |-> "Check", amount |-> 0], bet}
        ELSE {bet}

\* generate_random_card_ids(9): the shuffled deck's first nine cards.  The model
\* draws them from sample deals, listed as player, AI, community.
Hand(ranks, suits) == [i \in DOMAIN ranks |-> Card(ranks[i], suits[i])]

SampleDeals ==
    { \* player A-K of suit 1 on Q-J-10 of suit 1: AI holds a pair of nines
      Hand(<<1, 13, 9, 9, 12, 11, 10, 2, 3>>, <<1, 1, 2, 3, 1, 1, 1, 2, 3>>),
      \* same board, AI holds 9-8 of suit 1: a straight flush 8..12
      Hand(<<1, 13, 9, 8, 12, 11, 10, 2, 3>>, <<1, 1, 1, 1, 1, 1, 1, 2, 3>>),
      \* no pair, straight or flush on either side
      Hand(<<2, 4, 3, 5, 7, 9, 11, 13, 12>>, <<2, 3, 4, 3, 1, 2, 3, 4, 1>>),
      \* AI pairs the board's king twice over: three of a kind
      Hand(<<2, 4, 13, 13, 7, 9, 11, 13, 12>>, <<2, 3, 2, 3, 1, 2, 3, 4, 1>>) }

generate_random_card_ids == SampleDeals

\* initialize_deck_fast: a card whose create_card_fast fails is left out of the
\* deck.  LoadedDecks(card_ids, n): the decks of at most n cards that card_ids
\* can leave, in the order drawn.
MaxLoaded == 6
RECURSIVE KeepAt(_, _, _)
KeepAt(card_ids, loaded, i) ==
    IF i > Len(card_ids) THEN <<>>
    ELSE (IF i \in loaded THEN <<card_ids[i]>> ELSE <<>>) \o KeepAt(card_ids, loaded, i + 1)
LoadedDecks(card_ids, n) ==
    {KeepAt(card_ids, loaded, 1) :
        loaded \in {l \in SUBSET DOMAIN card_ids : Cardinality(l) <= n}}

\* The nine cards drawn for the hands whose cards partly fail to load: both
\* sides hold K-5
PartlyLoadedDeal == Hand(<<13, 5, 13, 5, 9, 2, 7, 11, 3>>, <<1, 1, 2, 2, 3, 3, 4, 4, 1>>)

\* Draws of nine cards that hold no pair, no straight and no flush: the four
\* hole cards are the first HoleCardCount cards of HighCardHoles in any order,
\* the board is HighCardBoard
HoleCardCount == 4
HighCardHoles == Hand(<<13, 4, 5, 3, 1>>, <<1, 2, 3, 4, 1>>)
HighCardBoard == Hand(<<7, 9, 11, 2, 12>>, <<1, 2, 3, 4, 1>>)
HighCardDeals ==
    LET picks == {p \in [1..4 -> 1..HoleCardCount] :
                     \A i \in 1..4, j \in 1..4 : i # j => p[i] # p[j]}
    IN  {[i \in 1..4 |-> HighCardHoles[p[i]]] \o HighCardBoard : p \in picks}

\* The decks initialize_deck_fast can leave of a draw: all nine cards, or, for
\* PartlyLoadedDeal, at most MaxLoaded of them
LoadableDecks(card_ids) ==
    {card_ids} \cup (IF card_ids = PartlyLoadedDeal
                     THEN LoadedDecks(card_ids, MaxLoaded) ELSE {})

\* pop_front n times, as far as the deck goes
Take(d, n) == SubSeq(d, 1, Min2(n, Len(d)))
Drop(d, n) == SubSeq(d, Min2(n, Len(d)) + 1, Len(d))

\* compare_hands(evaluate_best_hand(player), evaluate_best_hand(ai)) of
\* evaluate_showdown, worked out once for each deal that can be on the table
ShowdownComparison ==
    [d \in generate_random_card_ids \cup LoadableDecks(PartlyLoadedDeal) \cup HighCardDeals |->
        [order \in HashOrders |->
            compare_hands(
                evaluate_best_hand(Take(d, 2), Take(Drop(d, 4), 5), order),
                evaluate_best_hand(Take(Drop(d, 2), 2), Take(Drop(d, 4), 5), order))]]

\* check_game_end: the value of game_over after it
check_game_end(p_chips, a_chips, over) == over \/ p_chips <= 0 \/ a_chips <= 0

\* Faulty variant of evaluate_showdown: a tie pays the whole pot to the player
evaluate_showdown_no_split(p_hand, a_hand, community, p_chips, a_chips, the_pot, over, order) ==
    LET comparison == ShowdownComparison[p_hand \o a_hand \o community][order]
        p_after == IF comparison = "Less" THEN p_chips ELSE p_chips + the_pot
        a_after == IF comparison = "Less" THEN a_chips + the_pot ELSE a_chips
    IN  [player_chips |-> p_after, ai_chips |-> a_after, pot |-> 0,
         game_over |-> check_game_end(p_after, a_after, over)]

\* Faulty variant of evaluate_showdown: the pot is paid out but not emptied
evaluate_showdown_pot_kept(p_hand, a_hand, community, p_chips, a_chips, the_pot, over, order) ==
    LET comparison == ShowdownComparison[p_hand \o a_hand \o community][order]
        half_pot == the_pot \div 2
        p_after == IF comparison = "Greater" THEN p_chips + the_pot
                   ELSE IF comparison = "Equal" THEN p_chips + half_pot
                   ELSE p_chips
        a_after == IF comparison = "Less" THEN a_chips + the_pot
                   ELSE IF comparison = "Equal" THEN a_chips + half_pot
                   ELSE a_chips
    IN  [player_chips |-> p_after, ai_chips |-> a_after, pot |-> the_pot,
         game_over |-> check_game_end(p_after, a_after, over)]

\* evaluate_showdown: the stacks, the pot and game_over after it
evaluate_showdown(p_hand, a_hand, community, p_chips, a_chips, the_pot, over, order) ==
    LET comparison == ShowdownComparison[p_hand \o a_hand \o community][order]
        half_pot == the_pot \div 2
        p_after == IF comparison = "Greater" THEN p_chips + the_pot
                   ELSE IF comparison = "Equal" THEN p_chips + half_pot
                   ELSE p_chips
        a_after == IF comparison = "Less" THEN a_chips + the_pot
                   ELSE IF comparison = "Equal" THEN a_chips + half_pot
                   ELSE a_chips
    IN  [player_chips |-> p_after, ai_chips |-> a_after, pot |-> 0,
         game_over |-> check_game_end(p_after, a_after, over)]

\* initialize_deck_fast followed by deal_cards
deal_cards(card_ids) ==
    /\ player_hand' = Take(card_ids, 2)
    /\ ai_hand' = Take(Drop(card_ids, 2), 2)
    /\ community_cards' = Take(Drop(card_ids, 4), 5)
    /\ deck' = Drop(card_ids, 9)

\* TexasHoldemGame::new
new ==
    /\ game_state = "DifficultySelection"
    /\ selected_difficulty = "None"
    /\ player_hand = <<>> /\ ai_hand = <<>> /\ community_cards = <<>> /\ deck = <<>>
    /\ player_chips = 200 /\ ai_chips = 100
    /\ pot = 0 /\ current_bet = 0
    /\ game_phase = "PreFlop"
    /\ game_over = FALSE /\ show_ai_cards = FALSE
    /\ waiting_for_ai = FALSE /\ ai_thinking_timer = FALSE
    /\ player_acted = FALSE /\ ai_acted = FALSE /\ both_checked = FALSE
    /\ first_round = TRUE /\ has_used_special_action = FALSE
    /\ last_action = "new"
    /\ hand_folded = FALSE /\ hand_specials = 0 /\ hand_bets = NoBets /\ hand_paid = 0
    /\ hand_ai_checks = 0 /\ abandoned_waiting = FALSE

Init ==
    /\ new
    /\ eval_call = "none" /\ eval_cards = <<>> /\ eval_other = <<>>
    /\ eval_result = <<>>

\* Faulty variant of reset_game_state: the AI's pending action is not cancelled
reset_game_state_timer_kept ==
    /\ game_state' = "DifficultySelection"
    /\ selected_difficulty' = "None"
    /\ player_hand' = <<>> /\ ai_hand' = <<>> /\ community_cards' = <<>> /\ deck' = <<>>
    /\ player_chips' = 200 /\ ai_chips' = 100
    /\ pot' = 0 /\ current_bet' = 0
    /\ game_phase' = "PreFlop"
    /\ game_over' = FALSE /\ show_ai_cards' = FALSE
    /\ UNCHANGED <<waiting_for_ai, ai_thinking_timer>>
    /\ player_acted' = FALSE /\ ai_acted' = FALSE /\ both_checked' = FALSE
    /\ first_round' = TRUE /\ has_used_special_action' = FALSE
    /\ hand_folded' = FALSE /\ hand_specials' = 0 /\ hand_bets' = NoBets /\ hand_paid' = 0
    /\ hand_ai_checks' = 0 /\ abandoned_waiting' = waiting_for_ai

\* reset_game_state, after difficulty_selection.reset() and the return to the
\* difficulty screen (reset_to_difficulty_selection, reset_to_main_menu)
reset_game_state ==
    /\ game_state' = "DifficultySelection"
    /\ selected_difficulty' = "None"
    /\ player_hand' = <<>> /\ ai_hand' = <<>> /\ community_cards' = <<>> /\ deck' = <<>>
    /\ player_chips' = 200 /\ ai_chips' = 100
    /\ pot' = 0 /\ current_bet' = 0
    /\ game_phase' = "PreFlop"
    /\ game_over' = FALSE /\ show_ai_cards' = FALSE
    /\ waiting_for_ai' = FALSE /\ ai_thinking_timer' = FALSE
    /\ player_acted' = FALSE /\ ai_acted' = FALSE /\ both_checked' = FALSE
    /\ first_round' = TRUE /\ has_used_special_action' = FALSE
    /\ hand_folded' = FALSE /\ hand_specials' = 0 /\ hand_bets' = NoBets /\ hand_paid' = 0
    /\ hand_ai_checks' = 0 /\ abandoned_waiting' = waiting_for_ai

\* show, DifficultySelection: one of the three difficulty buttons
SelectDifficulty ==
    /\ game_state = "DifficultySelection"
    /\ \E d \in Difficulties : selected_difficulty' = d
    /\ game_state' = "Initializing"
    /\ last_action' = "select_difficulty"
    /\ UNCHANGED <<cardVars, chipVars, current_bet, game_phase, game_over, show_ai_cards,
                   waiting_for_ai, ai_thinking_timer, roundVars,
                   hand_folded, hand_specials, hand_bets, hand_paid, hand_ai_checks>>
    /\ abandoned_waiting' = FALSE
    /\ UNCHANGED evalVars

\* show, DifficultySelection: the main-menu button
ReturnToMenu ==
    /\ game_state = "DifficultySelection"
    /\ reset_game_state
    /\ last_action' = "reset_to_main_menu"
    /\ UNCHANGED evalVars

\* show, Initializing: the transition animation ends; start_game_fast
start_game_fast ==
    /\ game_state = "Initializing"
    /\ game_state' = "Playing"
    /\ \E card_ids \in generate_random_card_ids : deal_cards(card_ids)
    /\ game_over' = FALSE /\ show_ai_cards' = FALSE /\ waiting_for_ai' = FALSE
    /\ player_acted' = FALSE /\ ai_acted' = FALSE
    /\ first_round' = TRUE /\ has_used_special_action' = FALSE
    /\ last_action' = "start_game_fast"
    /\ hand_folded' = FALSE /\ hand_specials' = 0 /\ hand_bets' = NoBets /\ hand_paid' = 0
    /\ hand_ai_checks' = 0 /\ UNCHANGED abandoned_waiting
    /\ UNCHANGED <<selected_difficulty, chipVars, current_bet, game_phase,
                   ai_thinking_timer, both_checked>>
    /\ UNCHANGED evalVars

\* Faulty variant of ButtonsShown: drawn whoever is to act
ButtonsShown_any_time ==
    /\ game_state = "Playing"
    /\ ~game_over
    /\ game_phase # "Showdown"

\* show_action_buttons / show_game_action_buttons: the betting buttons are drawn
ButtonsShown ==
    /\ game_state = "Playing"
    /\ ~game_over
    /\ game_phase # "Showdown"
    /\ ~waiting_for_ai
    /\ ~player_acted

\* Faulty variant of can_use_special: the first round is not excluded
can_use_special_any_round == ~has_used_special_action

\* can_use_special of show_game_action_buttons
can_use_special == ~first_round /\ ~has_used_special_action

\* The Bet button: place_bet; player_acted = true; start_ai_thinking
PlayerBet ==
    /\ ButtonsShown
    /\ LET amount == get_fixed_bet_amount(game_phase)
       IN  /\ player_chips' = player_chips - amount
           /\ pot' = pot + amount
           /\ current_bet' = amount
           /\ game_over' = (game_over \/ player_chips - amount <= 0)
    /\ player_acted' = TRUE
    /\ waiting_for_ai' = TRUE /\ ai_thinking_timer' = TRUE
    /\ last_action' = "place_bet"
    /\ hand_bets' = [hand_bets EXCEPT !.player[game_phase] = @ + 1]
    /\ UNCHANGED <<game_state, selected_difficulty, cardVars, ai_chips, game_phase,
                   show_ai_cards, ai_acted, both_checked, first_round,
                   has_used_special_action, hand_folded, hand_specials, hand_paid,
                   hand_ai_checks, abandoned_waiting>>
    /\ UNCHANGED evalVars

\* Faulty variant of PlayerCheck: the AI is set thinking but player_acted is
\* left alone
PlayerCheck_not_acted ==
    /\ ButtonsShown
    /\ can_use_special
    /\ both_checked' = (player_acted /\ ai_acted)
    /\ has_used_special_action' = TRUE
    /\ waiting_for_ai' = TRUE /\ ai_thinking_timer' = TRUE
    /\ last_action' = "player_check"
    /\ hand_specials' = hand_specials + 1
    /\ UNCHANGED <<game_state, selected_difficulty, cardVars, chipVars, current_bet,
                   game_phase, game_over, show_ai_cards, player_acted, ai_acted, first_round,
                   hand_folded, hand_bets, hand_paid, hand_ai_checks, abandoned_waiting>>
    /\ UNCHANGED evalVars

\* The Check button: player_check; player_acted = true;
\* has_used_special_action = true; start_ai_thinking
PlayerCheck ==
    /\ ButtonsShown
    /\ can_use_special
    /\ both_checked' = (player_acted /\ ai_acted)
    /\ player_acted' = TRUE
    /\ has_used_special_action' = TRUE
    /\ waiting_for_ai' = TRUE /\ ai_thinking_timer' = TRUE
    /\ last_action' = "player_check"
    /\ hand_specials' = hand_specials + 1
    /\ UNCHANGED <<game_state, selected_difficulty, cardVars, chipVars, current_bet,
                   game_phase, game_over, show_ai_cards, ai_acted, first_round,
                   hand_folded, hand_bets, hand_paid, hand_ai_checks, abandoned_waiting>>
    /\ UNCHANGED evalVars

\* Faulty variant of PlayerFold: the pot is awarded but not emptied
PlayerFold_pot_kept ==
    /\ ButtonsShown
    /\ can_use_special
    /\ show_ai_cards' = TRUE
    /\ ai_chips' = ai_chips + pot
    /\ game_over' = check_game_end(player_chips, ai_chips + pot, game_over)
    /\ has_used_special_action' = TRUE
    /\ last_action' = "player_fold"
    /\ hand_folded' = TRUE
    /\ hand_specials' = hand_specials + 1
    /\ hand_paid' = hand_paid + pot
    /\ UNCHANGED <<hand_ai_checks, abandoned_waiting>>
    /\ UNCHANGED <<game_state, selected_difficulty, cardVars, player_chips, pot,
                   current_bet, game_phase, waiting_for_ai, ai_thinking_timer,
                   player_acted, ai_acted, both_checked, first_round, hand_bets>>
    /\ UNCHANGED evalVars

\* The Fold button: player_fold; has_used_special_action = true
PlayerFold ==
    /\ ButtonsShown
    /\ can_use_special
    /\ show_ai_cards' = TRUE
    /\ ai_chips' = ai_chips + pot
    /\ pot' = 0
    /\ game_over' = check_game_end(player_chips, ai_chips + pot, game_over)
    /\ has_used_special_action' = TRUE
    /\ last_action' = "player_fold"
    /\ hand_folded' = TRUE
    /\ hand_specials' = hand_specials + 1
    /\ hand_paid' = hand_paid + pot
    /\ UNCHANGED <<hand_ai_checks, abandoned_waiting>>
    /\ UNCHANGED <<game_state, selected_difficulty, cardVars, player_chips, current_bet,
                   game_phase, waiting_for_ai, ai_thinking_timer, player_acted, ai_acted,
                   both_checked, first_round, hand_bets>>
    /\ UNCHANGED evalVars

\* check_round_end and advance_phase after an AI action that left the stacks at
\* p_chips, a_chips, the pot at the_pot and show_ai_cards at shown
\* (ai_acted has just been set)
check_round_end(p_chips, a_chips, the_pot, bet, checked, is_bet, shown, order) ==
    LET paid == pot + (IF is_bet THEN bet ELSE 0) - the_pot  \* by the AI's own action
    IN
    IF player_acted
    THEN \* advance_phase
         /\ player_acted' = FALSE /\ ai_acted' = FALSE /\ both_checked' = FALSE
         /\ current_bet' = 0
         /\ first_round' = FALSE
         /\ game_phase' = NextPhase(game_phase)
         /\ hand_bets' = [hand_bets EXCEPT !.ai[game_phase] = @ + (IF is_bet THEN 1 ELSE 0)]
         /\ IF game_phase = "River"
            THEN LET settled == evaluate_showdown(player_hand, ai_hand, community_cards,
                                                  p_chips, a_chips, the_pot, game_over, order)
                 IN  /\ show_ai_cards' = TRUE
                     /\ player_chips' = settled.player_chips
                     /\ ai_chips' = settled.ai_chips
                     /\ pot' = settled.pot
                     /\ game_over' = settled.game_over
                     /\ hand_paid' = hand_paid + paid
                                         + (player_chips' - p_chips) + (ai_chips' - a_chips)
            ELSE /\ player_chips' = p_chips /\ ai_chips' = a_chips /\ pot' = the_pot
                 /\ show_ai_cards' = shown
                 /\ hand_paid' = hand_paid + paid
                 /\ UNCHANGED game_over
    ELSE /\ ai_acted' = TRUE
         /\ both_checked' = checked
         /\ current_bet' = bet
         /\ player_chips' = p_chips /\ ai_chips' = a_chips /\ pot' = the_pot
         /\ hand_bets' = [hand_bets EXCEPT !.ai[game_phase] = @ + (IF is_bet THEN 1 ELSE 0)]
         /\ show_ai_cards' = shown
         /\ hand_paid' = hand_paid + paid
         /\ UNCHANGED <<player_acted, first_round, game_phase, game_over>>

\* show: the thinking timer has run 500 ms; perform_ai_action
perform_ai_action ==
    /\ waiting_for_ai /\ ai_thinking_timer
    /\ waiting_for_ai' = FALSE /\ ai_thinking_timer' = FALSE
    /\ IF ai_acted
       THEN /\ last_action' = "ai_none"
            /\ UNCHANGED <<chipVars, current_bet, game_phase, game_over, show_ai_cards,
                           roundVars, hand_bets, hand_paid, hand_ai_checks>>
       ELSE \E action \in calculate_ai_action(selected_difficulty, player_acted, game_phase),
               order \in HashOrders :
               /\ last_action' = (CASE action.kind = "Bet" -> "ai_bet"
                                     [] action.kind = "Check" -> "ai_check"
                                     [] action.kind = "Fold" -> "ai_fold")
               /\ hand_ai_checks' = hand_ai_checks + (IF action.kind = "Check" THEN 1 ELSE 0)
               /\ LET fold == action.kind = "Fold"
                      check == action.kind = "Check"
                      is_bet == action.kind = "Bet"
                  IN  check_round_end(
                         \* Fold: player_chips += pot; pot = 0; show_ai_cards = true
                         IF fold THEN player_chips + pot ELSE player_chips,
                         \* Bet: ai_chips -= amount; pot += amount; current_bet = amount
                         IF is_bet THEN ai_chips - action.amount ELSE ai_chips,
                         IF fold THEN 0 ELSE IF is_bet THEN pot + action.amount ELSE pot,
                         IF is_bet THEN action.amount ELSE current_bet,
                         \* Check: both_checked = player_acted
                         IF check THEN player_acted ELSE both_checked,
                         is_bet,
                         IF fold THEN TRUE ELSE show_ai_cards,
                         order)
    /\ UNCHANGED <<game_state, selected_difficulty, cardVars, has_used_special_action,
                   hand_folded, hand_specials, abandoned_waiting>>
    /\ UNCHANGED evalVars

\* Faulty variant of start_next_round: offered after the session has ended too
start_next_round_any_time ==
    /\ game_state = "Playing"
    /\ game_phase = "Showdown"
    /\ \E card_ids \in generate_random_card_ids : deal_cards(card_ids)
    /\ pot' = 0 /\ current_bet' = 0
    /\ game_phase' = "PreFlop"
    /\ show_ai_cards' = FALSE
    /\ waiting_for_ai' = FALSE /\ ai_thinking_timer' = FALSE
    /\ player_acted' = FALSE /\ ai_acted' = FALSE /\ both_checked' = FALSE
    /\ game_over' = FALSE
    /\ has_used_special_action' = FALSE
    /\ first_round' = TRUE
    /\ last_action' = "start_next_round"
    /\ hand_folded' = FALSE /\ hand_specials' = 0 /\ hand_bets' = NoBets /\ hand_paid' = 0
    /\ hand_ai_checks' = 0 /\ UNCHANGED abandoned_waiting
    /\ UNCHANGED <<game_state, selected_difficulty, player_chips, ai_chips>>
    /\ UNCHANGED evalVars

\* The next-hand button at Showdown: start_next_round
start_next_round ==
    /\ game_state = "Playing"
    /\ ~game_over
    /\ game_phase = "Showdown"
    /\ \E card_ids \in generate_random_card_ids : deal_cards(card_ids)
    /\ pot' = 0 /\ current_bet' = 0
    /\ game_phase' = "PreFlop"
    /\ show_ai_cards' = FALSE
    /\ waiting_for_ai' = FALSE /\ ai_thinking_timer' = FALSE
    /\ player_acted' = FALSE /\ ai_acted' = FALSE /\ both_checked' = FALSE
    /\ game_over' = FALSE
    /\ has_used_special_action' = FALSE
    /\ first_round' = TRUE
    /\ last_action' = "start_next_round"
    /\ hand_folded' = FALSE /\ hand_specials' = 0 /\ hand_bets' = NoBets /\ hand_paid' = 0
    /\ hand_ai_checks' = 0 /\ UNCHANGED abandoned_waiting
    /\ UNCHANGED <<game_state, selected_difficulty, player_chips, ai_chips>>
    /\ UNCHANGED evalVars

\* The choose-difficulty button of the game screen: reset_to_difficulty_selection
reset_to_difficulty_selection ==
    /\ game_state = "Playing"
    /\ reset_game_state
    /\ last_action' = "reset_to_difficulty_selection"
    /\ UNCHANGED evalVars

Next ==
    \/ SelectDifficulty
    \/ ReturnToMenu
    \/ start_game_fast
    \/ PlayerBet
    \/ PlayerCheck
    \/ PlayerFold
    \/ perform_ai_action
    \/ start_next_round
    \/ reset_to_difficulty_selection

vars == <<gameVars, evalVars>>

Spec == Init /\ [][Next]_vars

(***************************************************************************)
(* The evaluator called on its own: its arguments are drawn from the hands *)
(* of bounded decks, and one step makes the call                           *)
(***************************************************************************)

FiveDeckSize == 15
PairDeckSize == 9
SevenDeckSize == 10
ShuffleBranch == 2

\* Cards for five-card hands.  The first eight hold a straight flush, a flush,
\* a straight 1..5 in mixed suits, two pairs, a pair and a plain high card; the
\* ninth adds three of a kind and a full house; 10..13 beside the Ace follow.
FiveDeck ==
    Hand(<<1, 2, 3, 4, 5, 7, 3, 2, 3, 10, 11, 12, 13, 11, 3, 6>>,
         <<1, 1, 1, 1, 1, 1, 2, 2, 3,  1,  1,  1,  1,  2, 4, 3>>)

\* Cards for seven-card hands.  The first seven hold no pair, no straight and no
\* flush; the rest add straights, pairs and flushes.
SevenDeck ==
    Hand(<<1, 2, 4, 7, 9, 11, 13, 3, 5, 9, 4, 2>>,
         <<1, 2, 3, 4, 1,  2,  3, 1, 1, 2, 1, 1>>)

Range(seq) == {seq[i] : i \in DOMAIN seq}
FiveCardHands == Range(generate_combinations(Take(FiveDeck, FiveDeckSize), 5))
ComparedHands == Range(generate_combinations(Take(FiveDeck, PairDeckSize), 5))
SevenCardHands ==
    Range(generate_combinations(Take(SevenDeck, SevenDeckSize), 7))
       \cup Range(generate_combinations(Take(FiveDeck, PairDeckSize), 7))

\* generate_random_card_ids: the 52 cards pushed suit by suit, rank by rank
all_possible_cards ==
    [i \in 1..52 |-> Card(((i - 1) % 13) + 1, ((i - 1) \div 13) + 1)]

\* The positions the shuffle may take the next card from: the first card of
\* each of the first ShuffleBranch runs of 13
ShufflePicks(cards) == {1 + 13 * k : k \in 0..(ShuffleBranch - 1)} \cap DOMAIN cards

\* Faulty variant of RemoveAt: the card drawn stays among the cards to draw
RemoveAt_kept(cards, j) == cards

\* shuffle and take: a card that is drawn leaves the cards to draw
RemoveAt(cards, j) == SubSeq(cards, 1, j - 1) \o SubSeq(cards, j + 1, Len(cards))

EvalInit ==
    /\ new
    /\ eval_result = <<>>
    /\ \/ /\ eval_call = "evaluate_five_card_hand"
          /\ eval_cards \in FiveCardHands
          /\ eval_other = <<>>
       \/ /\ eval_call = "compare_hand_results"
          /\ eval_cards \in ComparedHands
          /\ eval_other \in ComparedHands
       \/ /\ eval_call = "evaluate_best_hand"
          /\ eval_cards \in SevenCardHands
          /\ eval_other = <<>>
       \/ /\ eval_call = "generate_random_card_ids"
          /\ eval_cards = all_possible_cards
          /\ eval_other = <<>>
       \/ /\ eval_call = "initialize_deck_fast"
          /\ eval_cards \in {PartlyLoadedDeal} \cup HighCardDeals
          /\ eval_other = <<>>

\* evaluate_five_card_hand(eval_cards)
CallEvaluateFive ==
    /\ eval_call = "evaluate_five_card_hand" /\ eval_result = <<>>
    /\ \E order \in HashOrders :
          eval_result' = <<evaluate_five_card_hand(eval_cards, order)>>
    /\ UNCHANGED <<gameVars, eval_call, eval_cards, eval_other>>

\* compare_hand_results on the results of two five-card hands
CallCompare ==
    /\ eval_call = "compare_hand_results" /\ eval_result = <<>>
    /\ \E order1 \in HashOrders, order2 \in HashOrders :
          LET hand1 == evaluate_five_card_hand(eval_cards, order1)
              hand2 == evaluate_five_card_hand(eval_other, order2)
          IN  eval_result' = <<[hand1 |-> hand1, hand2 |-> hand2,
                                ordering |-> compare_hand_results(hand1, hand2)]>>
    /\ UNCHANGED <<gameVars, eval_call, eval_cards, eval_other>>

\* evaluate_best_hand(hole cards, community cards)
CallEvaluateBest ==
    /\ eval_call = "evaluate_best_hand" /\ eval_result = <<>>
    /\ \E order \in HashOrders :
          eval_result' = <<evaluate_best_hand(Take(eval_cards, 2), Drop(eval_cards, 2), order)>>
    /\ UNCHANGED <<gameVars, eval_call, eval_cards, eval_other>>

\* generate_random_card_ids(9): shuffle, then take, one card at a time
ShuffleDraw ==
    /\ eval_call = "generate_random_card_ids" /\ Len(eval_result) < 9
    /\ \E j \in ShufflePicks(eval_cards) :
          /\ eval_result' = Append(eval_result, eval_cards[j])
          /\ eval_cards' = RemoveAt(eval_cards, j)
    /\ UNCHANGED <<gameVars, eval_call, eval_other>>

\* initialize_deck_fast with the nine cards drawn, then deal_cards
DealDrawn ==
    /\ eval_call = "generate_random_card_ids" /\ Len(eval_result) = 9
    /\ deal_cards(eval_result)
    /\ eval_call' = "deal_cards"
    /\ UNCHANGED <<game_state, selected_difficulty, chipVars, current_bet, game_phase,
                   game_over, show_ai_cards, waiting_for_ai, ai_thinking_timer,
                   roundVars, histVars, eval_cards, eval_other, eval_result>>

\* start_game_fast when some cards fail to load: initialize_deck_fast leaves
\* them out, deal_cards deals what the deck holds; then both sides bet in all
\* four rounds, which brings the hand to the end of the River round
DealLoaded ==
    /\ eval_call = "initialize_deck_fast"
    /\ \E loaded \in LoadableDecks(eval_cards) : deal_cards(loaded)
    /\ game_state' = "Playing" /\ selected_difficulty' = "Easy"
    /\ game_phase' = "River" /\ first_round' = FALSE
    /\ player_chips' = player_chips - 100 /\ ai_chips' = ai_chips - 100 /\ pot' = 200
    /\ eval_call' = "evaluate_showdown"
    /\ UNCHANGED <<current_bet, game_over, show_ai_cards, waiting_for_ai, ai_thinking_timer,
                   player_acted, ai_acted, both_checked, has_used_special_action,
                   histVars, eval_cards, eval_other, eval_result>>

\* advance_phase at the River: evaluate_showdown
CallShowdown ==
    /\ eval_call = "evaluate_showdown" /\ eval_result = <<>>
    /\ \E order \in HashOrders :
          LET settled == evaluate_showdown(player_hand, ai_hand, community_cards,
                                           player_chips, ai_chips, pot, game_over, order)
          IN  /\ player_chips' = settled.player_chips
              /\ ai_chips' = settled.ai_chips
              /\ pot' = settled.pot
              /\ game_over' = settled.game_over
              /\ eval_result' =
                    <<[player_result |-> evaluate_best_hand(player_hand, community_cards, order),
                       ai_result |-> evaluate_best_hand(ai_hand, community_cards, order)]>>
    /\ game_phase' = "Showdown" /\ show_ai_cards' = TRUE
    /\ UNCHANGED <<game_state, selected_difficulty, cardVars, current_bet, waiting_for_ai,
                   ai_thinking_timer, roundVars, histVars,
                   eval_call, eval_cards, eval_other>>

NextEval ==
    \/ CallEvaluateFive
    \/ CallCompare
    \/ CallEvaluateBest
    \/ ShuffleDraw
    \/ DealDrawn
    \/ DealLoaded
    \/ CallShowdown

SpecEval == EvalInit /\ [][NextEval]_vars

(***************************************************************************)
(* Claims about the betting state machine, checked under Spec              *)
(***************************************************************************)

\* Steps told apart by what they change
HandStarts == last_action' \in {"start_game_fast", "start_next_round",
                                "reset_to_difficulty_selection", "reset_to_main_menu"}
PlayerBets == \E p \in BettingPhases : hand_bets'.player[p] = hand_bets.player[p] + 1
AiBets == \E p \in BettingPhases : hand_bets'.ai[p] = hand_bets.ai[p] + 1
AiActs == waiting_for_ai /\ ~waiting_for_ai' /\ last_action' \in {"ai_bet", "ai_check"}
PlayerSpecial == hand_specials' = hand_specials + 1

\* C1: a player Fold ends the hand: once the player has folded, and for as long
\* as that hand lasts, no bet or check of either side is applied, the phase does
\* not advance and the stacks and the pot do not move; the hand never reaches
\* the Showdown settlement.
C1_FoldEndsHand ==
    [][(hand_folded /\ hand_folded')
          => UNCHANGED <<game_phase, chipVars, player_acted, ai_acted>>]_vars

\* C3: after every chip transfer (a player bet, an AI bet, a fold award, a
\* showdown settlement), a stack that is <= 0 means game_over is true.
C3_GameOverAfterTransfer ==
    [][(chipVars' # chipVars /\ ~HandStarts)
          => ((player_chips' <= 0 \/ ai_chips' <= 0) => game_over')]_vars

\* C4: the player's Check and Fold happen only with first_round false and
\* has_used_special_action false, never in PreFlop, at most once per hand in
\* total, and has_used_special_action then stays true until a hand starts.
C4_SpecialOncePerHand ==
    /\ [](hand_specials <= 1 /\ (hand_specials = 1 => has_used_special_action))
    /\ [][/\ PlayerSpecial =>
                /\ ~first_round /\ ~has_used_special_action
                /\ game_phase # "PreFlop"
                /\ has_used_special_action'
          /\ (has_used_special_action /\ ~has_used_special_action') => HandStarts
         ]_vars

C4_Witness ==
    /\ last_action = "player_check" /\ hand_specials = 1
    /\ has_used_special_action /\ game_phase = "Turn"

\* C5: the phase changes only to its immediate successor, and exactly in the
\* steps where the AI acts after the player has acted; that step resets
\* player_acted, ai_acted, both_checked and current_bet and clears first_round.
\* A phase goes back to PreFlop only when a hand starts or the game is reset.
C5_PhaseSequence ==
    [][/\ (game_phase' # game_phase) =>
             \/ HandStarts /\ game_phase' = "PreFlop"
             \/ /\ AiActs /\ player_acted
                /\ <<game_phase, game_phase'>> \in
                       {<<"PreFlop", "Flop">>, <<"Flop", "Turn">>,
                        <<"Turn", "River">>, <<"River", "Showdown">>}
                /\ ~player_acted' /\ ~ai_acted' /\ ~both_checked'
                /\ current_bet' = 0 /\ ~first_round'
       /\ (AiActs /\ player_acted) => game_phase' # game_phase
       /\ (game_phase = "Showdown" /\ game_phase' # "Showdown") => HandStarts
      ]_vars

C5_Witness ==
    /\ game_phase = "Showdown" /\ last_action \in {"ai_bet", "ai_check"}
    /\ ~player_acted /\ ~ai_acted /\ ~first_round

\* The fixed bet table as the claim states it
C6_Table == [p \in BettingPhases |->
                IF p = "PreFlop" THEN 10 ELSE IF p = "Flop" THEN 20
                ELSE IF p = "Turn" THEN 30 ELSE 40]

\* C6 as stated: whenever a side bets in phase P, table(P) chips move from its
\* stack to the pot, current_bet becomes table(P), the other stack is unchanged,
\* and each side bets at most once per phase.
C6_BetMovesTableAmount ==
    /\ [](\A side \in {"player", "ai"}, p \in BettingPhases : hand_bets[side][p] <= 1)
    /\ [][/\ PlayerBets =>
                /\ player_chips' = player_chips - C6_Table[game_phase]
                /\ pot' = pot + C6_Table[game_phase]
                /\ current_bet' = C6_Table[game_phase]
                /\ ai_chips' = ai_chips
          /\ AiBets =>
                /\ ai_chips' = ai_chips - C6_Table[game_phase]
                /\ pot' = pot + C6_Table[game_phase]
                /\ current_bet' = C6_Table[game_phase]
                /\ player_chips' = player_chips
         ]_vars

\* C6 amended: the player's bet is as stated.  The AI's bet always completes the
\* round, so the step that applies it also advances the phase: before River it
\* leaves table(P) more in the pot, table(P) less in the AI's stack, the
\* player's stack unchanged and current_bet reset to 0; at River the pot, the
\* AI's 40 included, is paid out by the showdown in the same step.  Each side
\* bets at most once per phase; from a fresh hand, Bet then the AI's Bet gives
\* pot 20, both stacks 10 lower and phase Flop.
C6_BetMovesTableAmountAmended ==
    /\ [](\A side \in {"player", "ai"}, p \in BettingPhases : hand_bets[side][p] <= 1)
    /\ [][/\ PlayerBets =>
                /\ player_chips' = player_chips - C6_Table[game_phase]
                /\ pot' = pot + C6_Table[game_phase]
                /\ current_bet' = C6_Table[game_phase]
                /\ ai_chips' = ai_chips
          /\ (AiBets /\ game_phase # "River") =>
                /\ ai_chips' = ai_chips - C6_Table[game_phase]
                /\ pot' = pot + C6_Table[game_phase]
                /\ current_bet' = 0
                /\ player_chips' = player_chips
                /\ game_phase' # game_phase
          /\ (AiBets /\ game_phase = "River") =>
                /\ pot' = 0 /\ current_bet' = 0 /\ game_phase' = "Showdown"
                /\ player_chips' + ai_chips' = player_chips + ai_chips + pot
          /\ (last_action = "start_game_fast" /\ player_chips = 200 /\ ai_chips = 100
                /\ PlayerBets) =>
                   (pot' = 10 /\ player_chips' = 190 /\ game_phase' = "PreFlop")
          /\ (last_action = "place_bet" /\ game_phase = "PreFlop" /\ pot = 10
                /\ player_chips = 190 /\ ai_chips = 100 /\ AiBets) =>
                   (pot' = 20 /\ ai_chips' = 90 /\ player_chips' = 190
                    /\ game_phase' = "Flop")
         ]_vars

C6_Witness ==
    /\ selected_difficulty = "Easy" /\ last_action = "ai_bet"
    /\ game_phase = "Flop" /\ pot = 20 /\ player_chips = 190 /\ ai_chips = 90
    /\ hand_bets.player["PreFlop"] = 1 /\ hand_bets.ai["PreFlop"] = 1

\* The pot a River round's last step settles: the pot before it and the AI's bet
RiverSettles == game_phase = "River" /\ game_phase' = "Showdown"
SettledPot == pot + (IF AiBets THEN 40 ELSE 0)
AiStackBefore == ai_chips - (IF AiBets THEN 40 ELSE 0)
DealOnTable == player_hand \o ai_hand \o community_cards

\* C7: when the River round completes, the showdown gives the whole pot to the
\* side whose best hand compares Greater, pot/2 (integer division) to each
\* side on Equal, leaves the loser's stack as it was and the pot at 0.
C7_ShowdownSettlement ==
    [][RiverSettles =>
          \E order \in HashOrders :
             LET comparison == ShowdownComparison[DealOnTable][order]
             IN  /\ pot' = 0
                 /\ comparison = "Greater" =>
                       /\ player_chips' = player_chips + SettledPot
                       /\ ai_chips' = AiStackBefore
                 /\ comparison = "Less" =>
                       /\ ai_chips' = AiStackBefore + SettledPot
                       /\ player_chips' = player_chips
                 /\ comparison = "Equal" =>
                       /\ player_chips' = player_chips + (SettledPot \div 2)
                       /\ ai_chips' = AiStackBefore + (SettledPot \div 2)
      ]_vars

C7_Witness ==
    /\ game_phase = "Showdown" /\ last_action = "ai_bet" /\ pot = 0
    /\ ShowdownComparison[DealOnTable]["low_first"] = "Equal"
    /\ player_chips = 200 /\ ai_chips = 100

\* The scenario of C2: hole cards A, K of spades; community Q, J, 10 of spades,
\* 2 of hearts, 3 of diamonds
C2_Hole == Hand(<<1, 13>>, <<1, 1>>)
C2_Community == Hand(<<12, 11, 10, 2, 3>>, <<1, 1, 1, 2, 3>>)
C2_PlayerBest == [order \in HashOrders |-> evaluate_best_hand(C2_Hole, C2_Community, order)]

\* Every pair of hole cards the AI can hold in that scenario
C2_Rest ==
    {c \in [rank : 1..13, suit : 1..4] :
        \A i \in 1..2 : c # C2_Hole[i]} \ {C2_Community[i] : i \in 1..5}
C2_AiHands ==
    {<<c, d>> : c \in C2_Rest, d \in C2_Rest} \
    {h \in C2_Rest \X C2_Rest :
        h[1].rank > h[2].rank \/ (h[1].rank = h[2].rank /\ h[1].suit >= h[2].suit)}

\* Every AI hand without a straight flush compares below the player's best hand
C2_AiWithoutStraightFlushLoses ==
    \A h \in C2_AiHands, order \in HashOrders :
        LET ai_result == evaluate_best_hand(h, C2_Community, order)
        IN  ai_result.hand_strength # "StraightFlush"
               => compare_hands(C2_PlayerBest[order], ai_result) = "Greater"

\* The AI's best hand for each deal the model draws
C2_AiBest ==
    [d \in generate_random_card_ids |->
        [order \in HashOrders |->
            evaluate_best_hand(SubSeq(d, 3, 4), SubSeq(d, 5, 9), order)]]
C2_OnTable == player_hand = C2_Hole /\ community_cards = C2_Community
C2_AiHasNoStraightFlush ==
    \A order \in HashOrders : C2_AiBest[DealOnTable][order].hand_strength # "StraightFlush"

\* C2 as stated: with hole cards A, K of spades and community Q, J, 10 of
\* spades, 2 of hearts, 3 of diamonds, evaluate_best_hand returns
\* StraightFlush, and an AI hand without a straight flush loses the whole pot.
C2_RoyalIsStraightFlush ==
    C2_OnTable =>
        /\ \A order \in HashOrders : C2_PlayerBest[order].hand_strength = "StraightFlush"
        /\ C2_AiWithoutStraightFlushLoses

\* C2 amended: in that scenario evaluate_best_hand returns Flush with key
\* <<13, 12, 11, 10, 1>> (the Ace has rank 1, so A-K-Q-J-10 is no straight);
\* every AI hand without a straight flush still compares below it, and at the
\* showdown the player then takes the whole pot.
C2_RoyalIsFlush ==
    /\ [](C2_OnTable =>
             /\ \A order \in HashOrders :
                   C2_PlayerBest[order] = HandResult("Flush", <<13, 12, 11, 10, 1>>)
             /\ C2_AiWithoutStraightFlushLoses)
    /\ [][(RiverSettles /\ C2_OnTable /\ C2_AiHasNoStraightFlush) =>
             /\ player_chips' = player_chips + SettledPot
             /\ ai_chips' = AiStackBefore
             /\ pot' = 0]_vars

C2_Witness ==
    /\ game_phase = "Showdown" /\ C2_OnTable /\ C2_AiHasNoStraightFlush
    /\ pot = 0 /\ player_chips > 200
    /\ last_action \in {"ai_bet", "ai_check"}

(***************************************************************************)
(* Claims about the evaluator, checked under SpecEval                      *)
(***************************************************************************)

Returned(call) == eval_call = call /\ eval_result # <<>>
RanksOf(cards) == {cards[i].rank : i \in DOMAIN cards}
SuitsOf(cards) == {cards[i].suit : i \in DOMAIN cards}

\* C8: for seven distinct cards, the result of evaluate_best_hand compares
\* Greater or Equal, under compare_hand_results, to the evaluate_five_card_hand
\* result of each of the 21 five-card subsets.
C8_BestDominatesSubsets ==
    Returned("evaluate_best_hand") =>
        LET subsets == generate_combinations(eval_cards, 5)
        IN  /\ Len(subsets) = 21
            /\ \A i \in 1..Len(subsets), order \in HashOrders :
                  compare_hand_results(eval_result[1],
                                       evaluate_five_card_hand(subsets[i], order))
                     \in {"Greater", "Equal"}

\* Seven cards whose best hand is a straight although a subset holds a pair
C8_Witness ==
    /\ Returned("evaluate_best_hand")
    /\ eval_result[1].hand_strength = "Straight"
    /\ \E i \in 1..21, order \in HashOrders :
          evaluate_five_card_hand(generate_combinations(eval_cards, 5)[i], order).hand_strength
             = "OnePair"

\* The results compare_hand_results is called on
ComparedResults ==
    {evaluate_five_card_hand(h, order) : h \in ComparedHands, order \in HashOrders}
Reverse(ordering) ==
    CASE ordering = "Less" -> "Greater"
      [] ordering = "Greater" -> "Less"
      [] ordering = "Equal" -> "Equal"

\* C9: over the results of evaluate_five_card_hand, compare_hand_results is a
\* total preorder: compare(a, a) = Equal, compare(a, b) is the reverse of
\* compare(b, a), and compare(a, b) # Less with compare(b, c) # Less implies
\* compare(a, c) # Less.
C9_TotalPreorder ==
    Returned("compare_hand_results") =>
        LET a == eval_result[1].hand1
            b == eval_result[1].hand2
            a_b == eval_result[1].ordering
        IN  /\ compare_hand_results(a, a) = "Equal"
            /\ compare_hand_results(b, b) = "Equal"
            /\ a_b = Reverse(compare_hand_results(b, a))
            /\ \A c \in ComparedResults :
                  (a_b # "Less" /\ compare_hand_results(b, c) # "Less")
                     => compare_hand_results(a, c) # "Less"

\* Two different hands with a pair that tie
C9_Witness ==
    /\ Returned("compare_hand_results")
    /\ eval_cards # eval_other
    /\ eval_result[1].hand1.hand_strength = "OnePair"
    /\ eval_result[1].ordering = "Equal"

\* C10: ranks 1, 2, 3, 4, 5 in mixed suits are a Straight with key <<5>>; ranks
\* 1, 10, 11, 12, 13 are never a Straight or a StraightFlush; a five-card hand
\* is a straight exactly when its ranks are five distinct ones with max - min = 4.
C10_StraightRule ==
    Returned("evaluate_five_card_hand") =>
        LET ranks == RanksOf(eval_cards)
            result == eval_result[1]
            straight == result.hand_strength \in {"Straight", "StraightFlush"}
            spans == Cardinality(ranks) = 5 /\ SetMax(ranks) - SetMin(ranks) = 4
        IN  /\ straight <=> spans
            /\ is_straight([i \in 1..5 |-> eval_cards[i].rank]) <=> spans
            /\ (ranks = {1, 2, 3, 4, 5} /\ Cardinality(SuitsOf(eval_cards)) > 1)
                  => result = HandResult("Straight", <<5>>)
            /\ ranks = {1, 10, 11, 12, 13} => ~straight

C10_Witness ==
    /\ Returned("evaluate_five_card_hand")
    /\ RanksOf(eval_cards) = {1, 2, 3, 4, 5}
    /\ Cardinality(SuitsOf(eval_cards)) > 1
    /\ eval_result[1] = HandResult("Straight", <<5>>)

\* C11: evaluate_best_hand is deterministic: the same seven cards give the same
\* category and the same key in whatever order has_n_of_a_kind and get_pairs
\* traverse the rank-count map; so does each five-card evaluation.
C11_OrderIndependent ==
    /\ Returned("evaluate_best_hand") =>
          \A order \in HashOrders :
             evaluate_best_hand(Take(eval_cards, 2), Drop(eval_cards, 2), order)
                = eval_result[1]
    /\ Returned("evaluate_five_card_hand") =>
          \A order \in HashOrders :
             evaluate_five_card_hand(eval_cards, order) = eval_result[1]

\* Seven cards holding three of one rank and two of another: the count map has
\* two entries that the traversal could meet in either order
C11_Witness ==
    /\ Returned("evaluate_best_hand")
    /\ eval_result[1].hand_strength = "FullHouse"
    /\ \E r1 \in 1..13, r2 \in 1..13 :
          /\ r1 # r2
          /\ Cardinality({i \in 1..7 : eval_cards[i].rank = r1}) = 3
          /\ Cardinality({i \in 1..7 : eval_cards[i].rank = r2}) = 2

(***************************************************************************)
(* Further claims about the betting state machine, checked under Spec      *)
(***************************************************************************)

\* A step that abandons the game in play for the difficulty screen
GameAbandoned == last_action' \in {"reset_to_difficulty_selection", "reset_to_main_menu"}

\* C12 as stated: while waiting_for_ai is true no player Bet, Check or Fold and
\* no start of a next hand is applied; the only step that changes the pot, a
\* stack or the phase is the AI's own action.
C12_OnlyAiActsWhileWaiting ==
    [][waiting_for_ai =>
          /\ ~PlayerBets /\ ~PlayerSpecial
          /\ last_action' \notin {"place_bet", "player_check", "player_fold",
                                  "start_next_round", "start_game_fast"}
          /\ (chipVars' # chipVars \/ game_phase' # game_phase) => AiActs
      ]_vars

\* C12 amended: while waiting_for_ai is true no player Bet, Check or Fold and no
\* start of a next hand is applied; the pot, a stack or the phase is changed
\* only by the AI's own action or by the choose-difficulty button, which stays
\* clickable and resets the stacks to 200 and 100, the pot to 0 and the phase
\* to PreFlop.
C12_NoPlayerActionWhileWaiting ==
    [][waiting_for_ai =>
          /\ ~PlayerBets /\ ~PlayerSpecial
          /\ last_action' \notin {"place_bet", "player_check", "player_fold",
                                  "start_next_round", "start_game_fast"}
          /\ (chipVars' # chipVars \/ game_phase' # game_phase)
                => (AiActs \/ GameAbandoned)
          /\ GameAbandoned =>
                (player_chips' = 200 /\ ai_chips' = 100 /\ pot' = 0
                 /\ game_phase' = "PreFlop" /\ ~waiting_for_ai')
      ]_vars

C12_Witness ==
    /\ waiting_for_ai /\ ai_thinking_timer
    /\ last_action = "player_check" /\ game_phase = "River" /\ pot > 0

\* A player action is applied by the step
PlayerActs == last_action' \in {"place_bet", "player_check", "player_fold"}
                 /\ (PlayerBets \/ PlayerSpecial)

\* C13: in each betting round the player applies at most one action.  Every AI
\* action that follows a player action advances the phase, so two player
\* actions fall in the same phase of a hand exactly when one follows the other
\* with no step between them.
C13_OneActionPerRound ==
    [][PlayerActs =>
          /\ ~player_acted
          /\ last_action \notin {"place_bet", "player_check", "player_fold"}
      ]_vars

PlayerFolds == PlayerSpecial /\ last_action' = "player_fold"

\* C14: a player Fold adds the entire pot to ai_chips, sets pot to 0 and
\* has_used_special_action to true, and leaves player_chips, the phase,
\* current_bet and the dealt cards unchanged.
C14_FoldEffect ==
    [][PlayerFolds =>
          /\ ai_chips' = ai_chips + pot
          /\ pot' = 0
          /\ has_used_special_action'
          /\ UNCHANGED <<player_chips, game_phase, current_bet,
                         player_hand, ai_hand, community_cards>>
      ]_vars

C14_Witness ==
    /\ last_action = "player_fold" /\ hand_folded
    /\ pot = 0 /\ ai_chips = 190 /\ player_chips = 110
    /\ game_phase = "River" /\ has_used_special_action

\* The AI's timer fires and the AI acts
AiMoves == waiting_for_ai /\ ~waiting_for_ai' /\ ~GameAbandoned

NextHandStarts == last_action' = "start_next_round"

\* C16: the next hand starts only with game_over false; the step leaves
\* player_chips and ai_chips unchanged and sets phase = PreFlop, pot = 0,
\* current_bet = 0, first_round = true, has_used_special_action = false,
\* player_acted = ai_acted = both_checked = false and waiting_for_ai = false.
C16_NextHandResetsRound ==
    [][NextHandStarts =>
          /\ ~game_over
          /\ game_phase = "Showdown"
          /\ UNCHANGED <<player_chips, ai_chips>>
          /\ game_phase' = "PreFlop" /\ pot' = 0 /\ current_bet' = 0
          /\ first_round' /\ ~has_used_special_action'
          /\ ~player_acted' /\ ~ai_acted' /\ ~both_checked'
          /\ ~waiting_for_ai'
      ]_vars

C16_Witness ==
    /\ last_action = "start_next_round"
    /\ player_chips = 290 /\ ai_chips = 10
    /\ game_phase = "PreFlop" /\ pot = 0 /\ first_round

\* The chips bet by both sides in the current hand
RECURSIVE SumOver(_, _)
SumOver(f, S) ==
    IF S = {} THEN 0
    ELSE LET x == CHOOSE y \in S : TRUE IN f[x] + SumOver(f, S \ {x})
HandBetTotal ==
    SumOver([sp \in {"player", "ai"} \X BettingPhases |->
                hand_bets[sp[1]][sp[2]] * C6_Table[sp[2]]],
            {"player", "ai"} \X BettingPhases)

\* C17: in every reachable state the pot equals the bets placed by both sides
\* in the hand minus the amounts already paid out of the pot by a fold award or
\* the showdown settlement; the pot is never negative.
C17_PotIsBetsMinusPaid ==
    /\ pot = HandBetTotal - hand_paid
    /\ pot >= 0

\* A player's bet after a fold: the pot holds less than the hand's bets
C17_Witness ==
    /\ hand_paid = 20 /\ HandBetTotal = 40 /\ pot = 20
    /\ hand_folded /\ last_action = "place_bet"

(***************************************************************************)
(* Further claims about the dealer and the evaluator, checked under        *)
(* SpecEval                                                                *)
(***************************************************************************)

C19_BestIsSomeSubset ==
    Returned("evaluate_best_hand") =>
        LET subsets == generate_combinations(eval_cards, 5)
        IN  \E i \in 1..Len(subsets), order \in HashOrders :
               evaluate_five_card_hand(subsets[i], order) = eval_result[1]

\* The category of five cards by the precedence the claim lists
RankCount(cards, r) == Cardinality({i \in DOMAIN cards : cards[i].rank = r})
ListedCategory(cards) ==
    LET ranks == RanksOf(cards)
        flush == Cardinality(SuitsOf(cards)) = 1
        straight == Cardinality(ranks) = 5 /\ SetMax(ranks) - SetMin(ranks) = 4
        paired == {r \in ranks : RankCount(cards, r) >= 2}
    IN  IF flush /\ straight THEN "StraightFlush"
        ELSE IF \E r \in ranks : RankCount(cards, r) = 4 THEN "FourOfAKind"
        ELSE IF \E r1 \in ranks, r2 \in ranks :
                   r1 # r2 /\ RankCount(cards, r1) = 3 /\ RankCount(cards, r2) = 2
             THEN "FullHouse"
        ELSE IF flush THEN "Flush"
        ELSE IF straight THEN "Straight"
        ELSE IF \E r \in ranks : RankCount(cards, r) = 3 THEN "ThreeOfAKind"
        ELSE IF Cardinality(paired) >= 2 THEN "TwoPair"
        ELSE IF \E r \in ranks : RankCount(cards, r) = 2 THEN "OnePair"
        ELSE "HighCard"

\* C20: evaluate_five_card_hand puts every hand of five distinct cards into the
\* first matching category in the order StraightFlush, FourOfAKind, FullHouse,
\* Flush, Straight, ThreeOfAKind, TwoPair, OnePair, HighCard.
C20_CategoryPrecedence ==
    Returned("evaluate_five_card_hand") =>
        eval_result[1].hand_strength = ListedCategory(eval_cards)

\* A hand with two pairs, which also matches OnePair further down the list
C20_Witness ==
    /\ Returned("evaluate_five_card_hand")
    /\ eval_result[1] = HandResult("TwoPair", <<3, 2, 13>>)

\* The ranks that occur n times among the cards, and a set of ranks as a
\* descending sequence
RanksWithCount(cards, n) == {r \in RanksOf(cards) : RankCount(cards, r) = n}
RECURSIVE Descending(_)
Descending(S) == IF S = {} THEN <<>> ELSE <<SetMax(S)>> \o Descending(S \ {SetMax(S)})

\* The tie-break key the claim lists for a category
ListedKey(cards, category) ==
    LET top == <<SetMax(RanksOf(cards))>>
        quads == Descending(RanksWithCount(cards, 4))
        triples == Descending(RanksWithCount(cards, 3))
        pairs == Descending(RanksWithCount(cards, 2))
        kickers == Descending(RanksWithCount(cards, 1))
    IN  CASE category \in {"StraightFlush", "Straight"} -> top
          [] category = "FourOfAKind" -> quads \o kickers
          [] category = "FullHouse" -> triples \o pairs
          [] category \in {"Flush", "HighCard"} -> kickers
          [] category = "ThreeOfAKind" -> triples \o kickers
          [] category = "TwoPair" -> pairs \o kickers
          [] category = "OnePair" -> pairs \o kickers

\* C21: for every hand of five cards the tie-break key of evaluate_five_card_hand
\* is [top rank of the run] for StraightFlush and Straight, [quad rank, fifth
\* card] for FourOfAKind, [triple rank, pair rank] for FullHouse, the five ranks
\* descending for Flush and HighCard, [triple rank, two kickers descending] for
\* ThreeOfAKind, [higher pair, lower pair, kicker] for TwoPair and [pair rank,
\* three kickers descending] for OnePair.
C21_TieBreakKey ==
    Returned("evaluate_five_card_hand") =>
        eval_result[1].high_cards = ListedKey(eval_cards, eval_result[1].hand_strength)

\* Four cards of rank 3 and a fifth card
C21_Witness ==
    /\ Returned("evaluate_five_card_hand")
    /\ eval_result[1] = HandResult("FourOfAKind", <<3, 13>>)

(***************************************************************************)
(* Further claims about the betting state machine, checked under Spec      *)
(***************************************************************************)

\* The AI's Check is applied by the step
AiChecks == hand_ai_checks' = hand_ai_checks + 1

\* C22 as stated: counting the player's Checks and Folds and the AI's Checks, at
\* most one special action is used in a hand and none in the PreFlop round.
C22_OneSpecialBothSides ==
    /\ [](hand_specials + hand_ai_checks <= 1)
    /\ [][(PlayerSpecial \/ AiChecks) => game_phase # "PreFlop"]_vars

\* C22 amended: the player uses at most one Check or Fold in a hand and none in
\* the PreFlop round.  The AI's Check is not counted: it is taken only under
\* Hard after a player action, leaves has_used_special_action alone, and may
\* come in every round of the hand, PreFlop included.
C22_PlayerSpecialOnly ==
    /\ [](hand_specials <= 1 /\ hand_ai_checks <= 4)
    /\ [][PlayerSpecial => (game_phase # "PreFlop" /\ ~first_round)]_vars
    /\ [][AiChecks =>
             /\ selected_difficulty = "Hard" /\ player_acted
             /\ UNCHANGED has_used_special_action
       ]_vars

\* A hand in which the AI checked in all four rounds and the player once
C22_Witness ==
    /\ hand_ai_checks = 4 /\ hand_specials = 1
    /\ game_phase = "Showdown"

\* The state TexasHoldemGame::new builds
FreshState ==
    /\ game_state = "DifficultySelection" /\ selected_difficulty = "None"
    /\ player_hand = <<>> /\ ai_hand = <<>> /\ community_cards = <<>> /\ deck = <<>>
    /\ player_chips = 200 /\ ai_chips = 100
    /\ pot = 0 /\ current_bet = 0
    /\ game_phase = "PreFlop" /\ first_round
    /\ ~player_acted /\ ~ai_acted /\ ~both_checked /\ ~has_used_special_action
    /\ ~game_over /\ ~show_ai_cards
    /\ ~waiting_for_ai /\ ~ai_thinking_timer

\* C23: the game in play can be abandoned from every reachable state of the game
\* screen, also while the AI's delayed action is pending, and from the
\* difficulty screen; the reset always yields the fresh initial state (stacks
\* 200 and 100, pot 0, current_bet 0, PreFlop, first_round true, every acted,
\* special, game_over and waiting_for_ai flag false, no cards), and the step
\* after a reset is never the AI's pending action.
C23_ResetYieldsFreshState ==
    /\ [](game_state = "Playing" => ENABLED reset_to_difficulty_selection)
    /\ [](game_state = "DifficultySelection" => ENABLED ReturnToMenu)
    /\ [][GameAbandoned => FreshState']_vars
    /\ [][(last_action \in {"reset_to_difficulty_selection", "reset_to_main_menu"}) =>
             (~AiMoves /\ last_action' \notin {"ai_bet", "ai_check", "ai_fold", "ai_none"})]_vars

\* The fresh state reached by a reset taken while the AI's action was pending
C23_Witness ==
    /\ last_action = "reset_to_difficulty_selection" /\ abandoned_waiting
    /\ FreshState

(***************************************************************************)
(* Further claims about the evaluator and the showdown, checked under      *)
(* SpecEval                                                                *)
(***************************************************************************)

\* key holds the ranks of all the cards, in descending order
AllRanksDescending(key, cards) ==
    /\ Len(key) = Len(cards)
    /\ \A i \in 1..(Len(key) - 1) : key[i] >= key[i + 1]
    /\ \A r \in 1..13 : Count(key, r) = RankCount(cards, r)

\* C24: when a side's hole cards and the community cards are fewer than five
\* (the deck held fewer than nine cards) evaluate_best_hand returns HighCard with
\* all the available ranks in descending order, and the showdown still settles
\* the pot: all of it to one side, or half to each.
C24_ShortHandIsHighCard ==
    Returned("evaluate_showdown") =>
        LET p_cards == player_hand \o community_cards
            a_cards == ai_hand \o community_cards
            p_result == eval_result[1].player_result
            a_result == eval_result[1].ai_result
        IN  /\ Len(p_cards) < 5 =>
                  /\ p_result.hand_strength = "HighCard"
                  /\ AllRanksDescending(p_result.high_cards, p_cards)
            /\ Len(a_cards) < 5 =>
                  /\ a_result.hand_strength = "HighCard"
                  /\ AllRanksDescending(a_result.high_cards, a_cards)
            /\ pot = 0
            /\ <<player_chips, ai_chips>> \in {<<300, 0>>, <<100, 200>>, <<200, 100>>}

\* Five cards loaded: K-5 against K-9 on a board of one card, the 2; the AI's
\* nine wins the pot
C24_Witness ==
    /\ Returned("evaluate_showdown")
    /\ Len(player_hand) = 2 /\ Len(ai_hand) = 2 /\ Len(community_cards) = 1
    /\ eval_result[1].player_result = HandResult("HighCard", <<13, 5, 2>>)
    /\ eval_result[1].ai_result = HandResult("HighCard", <<13, 9, 2>>)
    /\ player_chips = 100 /\ ai_chips = 200 /\ pot = 0

(***************************************************************************)
(* Claims about the chips and the end of the session, checked under Spec   *)
(***************************************************************************)

\* C25: in every reachable state player_chips + ai_chips + pot = 300, and the
\* pot is even, so that the halves of a tied showdown add up to the pot.
C25_ChipsConserved ==
    /\ player_chips + ai_chips + pot = 300
    /\ pot % 2 = 0

\* A tied showdown of a whole hand of bets: each side has its 100 back
C25_Witness ==
    /\ game_phase = "Showdown" /\ last_action = "ai_bet"
    /\ hand_paid = 200 /\ pot = 0
    /\ player_chips = 200 /\ ai_chips = 100

\* The best five ranks of seven cards that hold no pair, straight or flush
BestFiveRanks(cards) == Truncate(Descending(RanksOf(cards)), 5)

\* seq1 is lexicographically higher than seq2 (same length)
LexHigher(seq1, seq2) ==
    \E i \in DOMAIN seq1 :
        /\ seq1[i] > seq2[i]
        /\ \A j \in 1..(i - 1) : seq1[j] = seq2[j]

\* C26: at a showdown of two full seven-card hands whose best results are both
\* HighCard, the side whose best five ranks are lexicographically higher wins
\* the whole pot, and the pot is split only when the best five ranks are the
\* same.
C26_HighCardShowdown ==
    (/\ Returned("evaluate_showdown")
     /\ Len(player_hand \o community_cards) = 7 /\ Len(ai_hand \o community_cards) = 7
     /\ eval_result[1].player_result.hand_strength = "HighCard"
     /\ eval_result[1].ai_result.hand_strength = "HighCard")
    => LET p_best == BestFiveRanks(player_hand \o community_cards)
           a_best == BestFiveRanks(ai_hand \o community_cards)
       IN  /\ LexHigher(p_best, a_best) => (player_chips = 300 /\ ai_chips = 0)
           /\ LexHigher(a_best, p_best) => (player_chips = 100 /\ ai_chips = 200)
           /\ (player_chips = 200 /\ ai_chips = 100) => p_best = a_best

(***************************************************************************)
(* Further claims about the end of the session, checked under Spec         *)
(***************************************************************************)

\* C27: whenever game_over is true, player_chips <= 0 or ai_chips <= 0 in that
\* same state.
C27_GameOverAccurate ==
    game_over => (player_chips <= 0 \/ ai_chips <= 0)

\* C28: once game_over is true, pot, player_chips, ai_chips and the phase do not
\* change until the game is reset; the AI action scheduled by the bet that
\* ended the session is not applied.
C28_FrozenAfterGameOver ==
    [][(game_over /\ ~GameAbandoned) =>
          /\ UNCHANGED <<pot, player_chips, ai_chips, game_phase>>
          /\ last_action' \notin {"ai_bet", "ai_check", "ai_fold"}
      ]_vars

\* C29: in every reachable state where game_over is true and no AI action is
\* pending, pot = 0.
C29_NoChipsStranded ==
    (game_over /\ ~waiting_for_ai) => pot = 0

\* The phase advances to the next betting round or to the showdown
PhaseAdvances == game_phase' # game_phase /\ ~HandStarts

\* C30: the AI's action is computed only in states where player_acted is true
\* and ai_acted is false; waiting_for_ai implies player_acted and not ai_acted;
\* the AI acts exactly once in a round, and that action is what advances the
\* phase.
C30_PlayerActsBeforeAi ==
    /\ [](waiting_for_ai => (player_acted /\ ~ai_acted /\ ai_thinking_timer))
    /\ [](~ai_acted)
    /\ [][AiMoves =>
             /\ player_acted /\ ~ai_acted
             /\ last_action' \in {"ai_bet", "ai_check"}
             /\ last_action \in {"place_bet", "player_check"}
             /\ PhaseAdvances
       ]_vars
    /\ [][PhaseAdvances => AiMoves]_vars

\* The AI has answered the player's Check of the Turn round with its Bet
C30_Witness ==
    /\ last_action = "ai_bet" /\ game_phase = "River"
    /\ hand_specials = 1 /\ hand_bets.player["Turn"] = 0 /\ hand_bets.ai["Turn"] = 1
    /\ ~player_acted /\ ~ai_acted /\ ~waiting_for_ai

====
